---------------------------- MODULE Spec2Model ----------------------------
(***************************************************************************)
(* Model of the record-flattening cache of src/src/dns/flatten.rs:         *)
(* DNSFlatten::pass / queue / flatten, DNSFlattenBootstrap::tick and       *)
(* DNSFlattenMaintain::expire / refresh, run by concurrent threads over    *)
(* the two RwLock-protected maps DNS_FLATTEN.registry and DNS_BOOTSTRAP;   *)
(* and of the managed threads of src/src/main.rs (gen_spawn_managed!).     *)
(*                                                                         *)
(* Granularity: one step per lock acquisition and one step per critical    *)
(* section (body and release of the guard).  Every read of                 *)
(* SystemTime::now() in the source happens inside a critical section, so   *)
(* it is read in the body step.  Time is counted in whole seconds.         *)
(***************************************************************************)
EXTENDS Integers, Sequences, FiniteSets, TLC

(***************************************************************************)
(* Bounds of the model.                                                    *)
(***************************************************************************)
\* Number of pass calls made in one behaviour, each by a thread of its own
\* of the serving layer: the calls overlap in every way, or follow each other.
MaxPass == 2
\* Number of times the clock advances in one behaviour.
MaxClockSteps == 2
\* Seconds by which one step of the clock advances.
ClockStep == 5

(***************************************************************************)
(* Program constants.                                                      *)
(***************************************************************************)
MAINTAIN_EXPIRE_TTL_RATIO == 10

(***************************************************************************)
(* Threads: the callers of pass, and the two workers.                      *)
(***************************************************************************)
Callers == 1..MaxPass
Bootstrap == MaxPass + 1
Maintain == MaxPass + 2
Workers == {Bootstrap, Maintain}
Threads == Callers \cup Workers

(***************************************************************************)
(* DNSFlattenRegistryKey = (RecordValue, RecordType), and the TTLs (u32)   *)
(* the zone records carry.                                                 *)
(***************************************************************************)
RecordType == {"A", "AAAA", "MX", "TXT", "PTR", "CNAME"}
Keys == {<<"example.com", "A">>, <<"alias.example.com", "CNAME">>}
TTLs == {0, 1}

\* Placeholders of locals that hold nothing.
NoKey == <<"", "">>
Unset == [unset |-> TRUE]
\* Err(())
ResolveErr == [ok |-> FALSE]
\* Ok(values)
Ok(values) == [ok |-> TRUE, values |-> values]
\* Option<SystemTime>: None, Some(t)
OptNone == <<>>
Some(t) == <<t>>

(***************************************************************************)
(* HashMap operations.                                                     *)
(***************************************************************************)
EmptyMap == [k \in {} |-> Unset]
ContainsKey(m, k) == k \in DOMAIN m
MapInsert(m, k, v) == [x \in DOMAIN m \cup {k} |-> IF x = k THEN v ELSE m[x]]
MapRemove(m, k) == [x \in DOMAIN m \ {k} |-> m[x]]
MapRemoveAll(m, ks) == [x \in DOMAIN m \ ks |-> m[x]]

(***************************************************************************)
(* The upstream resolver.  What a lookup answers is outside the program:   *)
(* a list of records, or a ResolveError.  Addresses are octet (group)      *)
(* tuples, MX records (preference, exchange) pairs, TXT records segment    *)
(* lists.                                                                  *)
(***************************************************************************)
Ipv4Answers == { << <<1,2,3,4>>, <<1,2,3,5>> >> }
Ipv6Answers == { << <<8193, 3512, 0, 1>> >> }
MxAnswers == { << <<10, "mail.example.com">> >> }
TxtAnswers == { << <<"v=spf1 ", "-all">>, <<"a">> >> }

RECURSIVE JoinWith(_, _)
\* [String].join(sep)
JoinWith(strs, sep) ==
    IF strs = <<>> THEN ""
    ELSE IF Len(strs) = 1 THEN strs[1]
    ELSE strs[1] \o sep \o JoinWith(Tail(strs), sep)

\* Ipv4Addr::to_string: dotted decimal
Ipv4ToString(a) == JoinWith([i \in 1..Len(a) |-> ToString(a[i])], ".")
\* Ipv6Addr::to_string of the groups given (written in decimal digits)
Ipv6ToString(a) == JoinWith([i \in 1..Len(a) |-> ToString(a[i])], ":")
\* format!("{} {}", value.preference(), value.exchange())
MxToString(m) == ToString(m[1]) \o " " \o m[2]
\* value.txt_data().join("")
TxtToString(t) == JoinWith(t, "")

(***************************************************************************)
(* The match of flatten (lines 135-170): the possible `results` for a key. *)
(* A, AAAA, MX, TXT call the resolver, which answers or fails; PTR and     *)
(* CNAME make no call and give Ok(Vec::new()).  Each value is converted    *)
(* in the order of the answer (values.iter().map(..).collect()).           *)
(***************************************************************************)
\* Mutant: the last arm of the match asks the resolver too.
FlattenResults_AliasAsksUpstream(key) ==
    IF key[2] \in {"PTR", "CNAME"} THEN {Ok(<<>>), ResolveErr}
    ELSE {Ok(<<"0.0.0.0">>), ResolveErr}

FlattenResults(key) ==
    CASE key[2] = "A" ->
            {Ok([i \in 1..Len(a) |-> Ipv4ToString(a[i])]) : a \in Ipv4Answers} \cup {ResolveErr}
      [] key[2] = "AAAA" ->
            {Ok([i \in 1..Len(a) |-> Ipv6ToString(a[i])]) : a \in Ipv6Answers} \cup {ResolveErr}
      [] key[2] = "MX" ->
            {Ok([i \in 1..Len(a) |-> MxToString(a[i])]) : a \in MxAnswers} \cup {ResolveErr}
      [] key[2] = "TXT" ->
            {Ok([i \in 1..Len(a) |-> TxtToString(a[i])]) : a \in TxtAnswers} \cup {ResolveErr}
      [] key[2] \in {"PTR", "CNAME"} -> {Ok(<<>>)}

\* Whether flatten calls the resolver for this key.
CallsUpstream(key) == key[2] \notin {"PTR", "CNAME"}

(***************************************************************************)
(* DNSFlattenEntry::new (lines 335-346), evaluated at time_now.            *)
(***************************************************************************)
\* Mutant: the accessed_at given is not restored.
DNSFlattenEntryNew_IgnoresOverride(values, ttl, accessed_at, time_now) ==
    [values |-> values, ttl |-> ttl,
     refreshed_at |-> time_now, accessed_at |-> time_now]

DNSFlattenEntryNew(values, ttl, accessed_at, time_now) ==
    [values |-> values,
     ttl |-> ttl,
     refreshed_at |-> time_now,
     accessed_at |-> IF accessed_at = OptNone THEN time_now ELSE accessed_at[1]]

(***************************************************************************)
(* The registry write of flatten (lines 172-189): what the registry is     *)
(* after it, given `results`.                                              *)
(***************************************************************************)
\* Mutant: the write does not look for an entry to keep.
FlattenStore_Clears(reg, key, results, ttl, accessed_at, time_now) ==
    MapInsert(reg, key,
        DNSFlattenEntryNew(IF results.ok THEN results.values ELSE <<>>,
                           ttl, accessed_at, time_now))

\* Mutant: a failure writes nothing, entry or not.
FlattenStore_SkipsFailure(reg, key, results, ttl, accessed_at, time_now) ==
    IF ~results.ok
    THEN reg
    ELSE MapInsert(reg, key,
            DNSFlattenEntryNew(results.values, ttl, accessed_at, time_now))

\* Mutant: the write keeps whatever entry there is.
FlattenStore_KeepsExisting(reg, key, results, ttl, accessed_at, time_now) ==
    IF ContainsKey(reg, key)
    THEN reg
    ELSE MapInsert(reg, key,
            DNSFlattenEntryNew(IF results.ok THEN results.values ELSE <<>>,
                               ttl, accessed_at, time_now))

FlattenStore(reg, key, results, ttl, accessed_at, time_now) ==
    IF ~results.ok /\ ContainsKey(reg, key)
    THEN reg
    ELSE MapInsert(reg, key,
            DNSFlattenEntryNew(IF results.ok THEN results.values ELSE <<>>,
                               ttl, accessed_at, time_now))

(***************************************************************************)
(* The cache hit of pass (lines 98-104): the entry after the access, and   *)
(* the value returned.                                                     *)
(***************************************************************************)
\* Mutant: the hit does not stamp the entry.
PassBump_NoStamp(entry, time_now) == entry

\* Mutant: the hit stamps the entry with the epoch.
PassBump_Epoch(entry, time_now) == [entry EXCEPT !.accessed_at = 0]

PassBump(entry, time_now) == [entry EXCEPT !.accessed_at = time_now]
PassValues(entry) == entry.values

(***************************************************************************)
(* queue (lines 120-131): the pending map after the insert.                *)
(***************************************************************************)
\* Mutant: the order is not stacked.
QueueInsertMap_Lost(boot, key, ttl) == boot

\* Mutant: the order replaces the whole queue.
QueueInsertMap_Clobbers(boot, key, ttl) == MapInsert(EmptyMap, key, ttl)

QueueInsertMap(boot, key, ttl) == MapInsert(boot, key, ttl)

(***************************************************************************)
(* Unsigned arithmetic of a fixed width.  A u32 (or a u64 that a u32 was   *)
(* cast to) is written as its two 16-bit halves <<high, low>>, of value    *)
(* high * Limb + low, so that a product beyond 2^32 can be told from its   *)
(* value modulo 2^32.                                                      *)
(***************************************************************************)
Limb == 65536
Limbs(n) == <<n \div Limb, n % Limb>>
\* The product of a u32 by a u32 factor below Limb, in the integers: its
\* high half may be Limb or more.
Product(a, m) == <<a[1] * m + (a[2] * m) \div Limb, (a[2] * m) % Limb>>
\* a * m does not fit a u32: a build with overflow checks (debug) panics.
MulOverflows(a, m) == Product(a, m)[1] >= Limb
\* a * m of a build without overflow checks (release): modulo 2^32.
WrappingMul(a, m) == <<Product(a, m)[1] % Limb, Product(a, m)[2]>>
\* a >= b
AtLeast(a, b) == a[1] > b[1] \/ (a[1] = b[1] /\ a[2] >= b[2])

(***************************************************************************)
(* The tests of the two maintenance scans (lines 271-278 and 308-315).     *)
(* The threshold of expire is the u32 product of line 276, cast to u64     *)
(* after the multiplication.                                               *)
(***************************************************************************)
ExpireOverflows(ttl) == MulOverflows(Limbs(ttl), MAINTAIN_EXPIRE_TTL_RATIO)
ExpireThreshold(ttl) == WrappingMul(Limbs(ttl), MAINTAIN_EXPIRE_TTL_RATIO)
ExpireDue(entry, now_time) ==
    AtLeast(Limbs(now_time - entry.accessed_at), ExpireThreshold(entry.ttl))
RefreshDue(entry, now_time) ==
    now_time - entry.refreshed_at >= entry.ttl

(***************************************************************************)
(* RwLock.                                                                 *)
(***************************************************************************)
Free == [writers |-> {}, readers |-> {}]
\* RwLock::write() returns: nobody holds the lock
CanWrite(lock) == lock.writers = {} /\ lock.readers = {}
\* RwLock::read() returns: no writer holds the lock
CanRead(lock) == lock.writers = {}
WriteLocked(lock, t) == [lock EXCEPT !.writers = @ \cup {t}]
ReadLocked(lock, t) == [lock EXCEPT !.readers = @ \cup {t}]
\* drop of the guard
Unlocked(lock, t) == [writers |-> lock.writers \ {t}, readers |-> lock.readers \ {t}]
Holds(lock, t) == t \in lock.writers \/ t \in lock.readers

(***************************************************************************)
(* State.                                                                  *)
(***************************************************************************)
VARIABLES
    registry,           \* DNS_FLATTEN.registry: key -> DNSFlattenEntry
    bootstrap,          \* DNS_BOOTSTRAP: key -> ttl
    registryLock,       \* the RwLock around the registry
    bootstrapLock,      \* the RwLock around DNS_BOOTSTRAP
    now,                \* SystemTime::now(), in seconds
    pc,                 \* where each thread is
    call,               \* per caller: the arguments of its pass call
    ret,                \* what the pass call that returned last returned
    bootstrap_register, \* tick: the snapshot items not yet processed
    expire_register,    \* expire: the keys to remove
    refresh_register,   \* refresh: the snapshot items not yet processed
    flat,               \* per worker: the arguments and `results` of the
                        \* flatten call in progress (of tick: until line 221)
    queried,            \* history: keys pass was called for
    resolved,           \* history: keys a resolution attempt completed for
    deferrals,          \* history: per key, the Deferred returns since the
                        \* last resolution of the key wrote (or kept) the registry
    swept,              \* history: the keys the expire sweep of the running
                        \* maintenance tick removed, less those the bootstrap
                        \* worker stored an entry for since
    main_pc,            \* main.rs: where main() is
    managed             \* main.rs: per managed thread, where its spawn
                        \* function is, what became of the worker thread
                        \* it spawned last, and the seconds its sleep
                        \* still lasts

vars == <<registry, bootstrap, registryLock, bootstrapLock, now, pc, call, ret,
          bootstrap_register, expire_register, refresh_register, flat,
          queried, resolved, deferrals, swept, main_pc, managed>>

NoCall == [key |-> NoKey, ttl |-> 0]
\* The threads gen_spawn_managed! is used for (main.rs, lines 88-99).
Managed == {"dns", "http"}
\* The cool-down of a managed thread that crashed, in seconds.
COOLDOWN_SECONDS == 2
NotSpawned == [method |-> "not_called", worker |-> "none", sleep |-> 0]
NoRet == [kind |-> "None"]
\* Err(()) of queue, and Ok(value) of pass, with the key of the call
Deferred(key) == [kind |-> "Deferred", key |-> key]
Success(key, values) == [kind |-> "Ok", key |-> key, values |-> values]
NoFlat == [key |-> NoKey, ttl |-> 0, accessed_at |-> OptNone, results |-> Unset]

Init ==
    /\ registry = EmptyMap
    /\ bootstrap = EmptyMap
    /\ registryLock = Free
    /\ bootstrapLock = Free
    /\ now = 0
    /\ pc = [t \in Threads |-> IF t \in Callers THEN "idle" ELSE "sleep"]
    /\ call = [c \in Callers |-> NoCall]
    /\ ret = NoRet
    /\ bootstrap_register = {}
    /\ expire_register = {}
    /\ refresh_register = {}
    /\ flat = [w \in Workers |-> NoFlat]
    /\ queried = {}
    /\ resolved = {}
    /\ deferrals = [k \in Keys |-> 0]
    /\ swept = {}
    /\ main_pc = "start"
    /\ managed = [m \in Managed |-> NotSpawned]

workerVars == <<bootstrap_register, expire_register, refresh_register, flat>>
supervisorVars == <<main_pc, managed>>
callerVars == <<call, ret, queried>>

(***************************************************************************)
(* The clock.                                                              *)
(***************************************************************************)
ClockAdvance ==
    /\ now + ClockStep <= MaxClockSteps * ClockStep
    /\ now' = now + ClockStep
    /\ UNCHANGED <<registry, bootstrap, registryLock, bootstrapLock, pc,
                   callerVars, workerVars, resolved, deferrals, swept, supervisorVars>>

(***************************************************************************)
(* DNSFlatten::pass (lines 85-118).                                        *)
(***************************************************************************)
\* A thread calls pass(record_type, record_value, record_ttl) and gets the
\* registry write lock (line 96).  The threads are interchangeable: the
\* next call is made by the first one that has made none.
Pass(c, key, ttl) ==
    /\ pc[c] = "idle"
    /\ \A d \in Callers : d < c => pc[d] # "idle"
    /\ CanWrite(registryLock)
    /\ registryLock' = WriteLocked(registryLock, c)
    /\ pc' = [pc EXCEPT ![c] = "pass_lookup"]
    /\ call' = [call EXCEPT ![c] = [key |-> key, ttl |-> ttl]]
    /\ UNCHANGED ret
    /\ queried' = queried \cup {key}
    /\ UNCHANGED <<registry, bootstrap, bootstrapLock, now, workerVars,
                   resolved, deferrals, swept, supervisorVars>>

\* Mutant: no sub-block around the lookup, the guard lives on into queue.
PassLookup_KeepsLock(c) ==
    /\ pc[c] = "pass_lookup"
    /\ IF ContainsKey(registry, call[c].key)
       THEN /\ registry' = [registry EXCEPT
                   ![call[c].key] = PassBump(@, now)]
            /\ ret' = Success(call[c].key,
                               PassValues(registry[call[c].key]))
            /\ pc' = [pc EXCEPT ![c] = "returned"]
            /\ call' = [call EXCEPT ![c] = NoCall]
            /\ registryLock' = Unlocked(registryLock, c)
       ELSE /\ pc' = [pc EXCEPT ![c] = "queue_wait"]
            /\ UNCHANGED <<registry, ret, call, registryLock>>
    /\ UNCHANGED <<bootstrap, bootstrapLock, now, queried,
                   workerVars, resolved, deferrals, swept, supervisorVars>>

\* Lines 98-108, and the drop of the guard at the end of the block; on a hit
\* the return of line 112.
PassLookup(c) ==
    /\ pc[c] = "pass_lookup"
    /\ registryLock' = Unlocked(registryLock, c)
    /\ IF ContainsKey(registry, call[c].key)
       THEN /\ registry' = [registry EXCEPT
                   ![call[c].key] = PassBump(@, now)]
            /\ ret' = Success(call[c].key,
                               PassValues(registry[call[c].key]))
            /\ pc' = [pc EXCEPT ![c] = "returned"]
            /\ call' = [call EXCEPT ![c] = NoCall]
       ELSE /\ pc' = [pc EXCEPT ![c] = "queue_wait"]
            /\ UNCHANGED <<registry, ret, call>>
    /\ UNCHANGED <<bootstrap, bootstrapLock, now, queried,
                   workerVars, resolved, deferrals, swept, supervisorVars>>

(***************************************************************************)
(* DNSFlatten::queue (lines 120-131).                                      *)
(***************************************************************************)
\* Line 122.
QueueAcquire(c) ==
    /\ pc[c] = "queue_wait"
    /\ CanWrite(bootstrapLock)
    /\ bootstrapLock' = WriteLocked(bootstrapLock, c)
    /\ pc' = [pc EXCEPT ![c] = "queue_insert"]
    /\ UNCHANGED <<registry, bootstrap, registryLock, now, callerVars,
                   workerVars, resolved, deferrals, swept, supervisorVars>>

\* Lines 125-130.
QueueInsert(c) ==
    /\ pc[c] = "queue_insert"
    /\ bootstrap' = QueueInsertMap(bootstrap, call[c].key, call[c].ttl)
    /\ bootstrapLock' = Unlocked(bootstrapLock, c)
    /\ ret' = Deferred(call[c].key)
    /\ pc' = [pc EXCEPT ![c] = "returned"]
    /\ call' = [call EXCEPT ![c] = NoCall]
    /\ deferrals' = [deferrals EXCEPT ![call[c].key] = @ + 1]
    /\ UNCHANGED <<registry, registryLock, now, queried,
                   workerVars, resolved, swept, supervisorVars>>

(***************************************************************************)
(* The loops of tick (lines 219-222) and of refresh (lines 321-325) over   *)
(* the items of a snapshot still to process, in the order the HashMap      *)
(* gave them (any): flatten is called for the next item, with no           *)
(* accessed_at by tick and with the accessed_at read by the scan by        *)
(* refresh; when none is left the worker sleeps until its next tick.       *)
(***************************************************************************)
TickLoop(items) ==
    IF items = {}
    THEN /\ pc' = [pc EXCEPT ![Bootstrap] = "sleep"]
         /\ bootstrap_register' = {}
         /\ flat' = [flat EXCEPT ![Bootstrap] = NoFlat]
    ELSE \E item \in items :
         /\ pc' = [pc EXCEPT ![Bootstrap] = "flatten_lookup"]
         /\ bootstrap_register' = items \ {item}
         /\ flat' = [flat EXCEPT ![Bootstrap] =
               [key |-> item[1], ttl |-> item[2],
                accessed_at |-> OptNone, results |-> Unset]]

RefreshLoop(items) ==
    IF items = {}
    THEN /\ pc' = [pc EXCEPT ![Maintain] = "sleep"]
         /\ refresh_register' = {}
         /\ flat' = [flat EXCEPT ![Maintain] = NoFlat]
         /\ swept' = {}
    ELSE \E item \in items :
         /\ UNCHANGED swept
         /\ pc' = [pc EXCEPT ![Maintain] = "flatten_lookup"]
         /\ refresh_register' = items \ {item}
         /\ flat' = [flat EXCEPT ![Maintain] =
               [key |-> item[1], ttl |-> item[2],
                accessed_at |-> Some(item[3]), results |-> Unset]]

(***************************************************************************)
(* DNSFlatten::flatten (lines 133-190), called by a worker w.              *)
(***************************************************************************)
\* Lines 135-173: the lookup for flat[w].key ends with some `results`, and
\* the worker gets the registry write lock.  In pc "flatten_lookup" the
\* lookup is in progress (or over, the worker waiting for the lock).
FlattenLookup(w) ==
    /\ pc[w] = "flatten_lookup"
    /\ CanWrite(registryLock)
    /\ \E results \in FlattenResults(flat[w].key) :
          flat' = [flat EXCEPT ![w].results = results]
    /\ registryLock' = WriteLocked(registryLock, w)
    /\ pc' = [pc EXCEPT ![w] = "flatten_write"]
    /\ UNCHANGED <<registry, bootstrap, bootstrapLock, now, callerVars,
                   bootstrap_register, expire_register, refresh_register,
                   resolved, deferrals, swept, supervisorVars>>

\* Lines 178-190, and the return to tick (line 221) or to the loop of
\* refresh (line 321).  The history records that a resolution of the key
\* completed.
FlattenWrite(w) ==
    /\ pc[w] = "flatten_write"
    /\ registry' = FlattenStore(registry, flat[w].key, flat[w].results,
                                flat[w].ttl, flat[w].accessed_at, now)
    /\ registryLock' = Unlocked(registryLock, w)
    /\ resolved' = resolved \cup {flat[w].key}
    /\ deferrals' = [deferrals EXCEPT ![flat[w].key] = 0]
    /\ IF w = Bootstrap
       THEN /\ pc' = [pc EXCEPT ![w] = "tick_remove_wait"]
            /\ swept' = swept \ {flat[w].key}
            /\ UNCHANGED <<flat, refresh_register>>
       ELSE RefreshLoop(refresh_register)
    /\ UNCHANGED <<bootstrap, bootstrapLock, now, callerVars,
                   bootstrap_register, expire_register, supervisorVars>>

(***************************************************************************)
(* DNSFlattenBootstrap::tick (lines 205-229), in the loop of run.          *)
(***************************************************************************)
\* Line 210.
TickScanAcquire ==
    /\ pc[Bootstrap] = "sleep"
    /\ CanRead(bootstrapLock)
    /\ bootstrapLock' = ReadLocked(bootstrapLock, Bootstrap)
    /\ pc' = [pc EXCEPT ![Bootstrap] = "tick_scan"]
    /\ UNCHANGED <<registry, bootstrap, registryLock, now, callerVars,
                   workerVars, resolved, deferrals, swept, supervisorVars>>

\* Mutant: the scan lists every key there is, pending or not.
TickSnapshot_AllKeys(boot) ==
    {<<k, IF k \in DOMAIN boot THEN boot[k] ELSE 0>> : k \in Keys}

\* The snapshot taken by lines 212-214.
TickSnapshot(boot) == {<<k, boot[k]>> : k \in DOMAIN boot}

\* Mutant: no sub-block around the scan, the read guard lives on into the
\* loop.
TickScan_KeepsLock ==
    /\ pc[Bootstrap] = "tick_scan"
    /\ UNCHANGED bootstrapLock
    /\ TickLoop(TickSnapshot(bootstrap))
    /\ UNCHANGED <<registry, bootstrap, registryLock, now, callerVars,
                   expire_register, refresh_register, resolved, deferrals, swept, supervisorVars>>

\* Lines 212-220.
TickScan ==
    /\ pc[Bootstrap] = "tick_scan"
    /\ bootstrapLock' = Unlocked(bootstrapLock, Bootstrap)
    /\ TickLoop(TickSnapshot(bootstrap))
    /\ UNCHANGED <<registry, bootstrap, registryLock, now, callerVars,
                   expire_register, refresh_register, resolved, deferrals, swept, supervisorVars>>

\* Line 221: DNS_BOOTSTRAP.write()
TickRemoveAcquire ==
    /\ pc[Bootstrap] = "tick_remove_wait"
    /\ CanWrite(bootstrapLock)
    /\ bootstrapLock' = WriteLocked(bootstrapLock, Bootstrap)
    /\ pc' = [pc EXCEPT ![Bootstrap] = "tick_remove"]
    /\ UNCHANGED <<registry, bootstrap, registryLock, now, callerVars,
                   workerVars, resolved, deferrals, swept, supervisorVars>>

\* Line 221: .remove(bootstrap_key), then the next iteration or the end of
\* the tick.
TickRemove ==
    /\ pc[Bootstrap] = "tick_remove"
    /\ bootstrap' = MapRemove(bootstrap, flat[Bootstrap].key)
    /\ bootstrapLock' = Unlocked(bootstrapLock, Bootstrap)
    /\ TickLoop(bootstrap_register)
    /\ UNCHANGED <<registry, registryLock, now, callerVars,
                   expire_register, refresh_register, resolved, deferrals, swept, supervisorVars>>

(***************************************************************************)
(* DNSFlattenMaintain::expire (lines 260-295), first in the loop of run.   *)
(***************************************************************************)
\* Line 267.
ExpireScanAcquire ==
    /\ pc[Maintain] = "sleep"
    /\ CanRead(registryLock)
    /\ registryLock' = ReadLocked(registryLock, Maintain)
    /\ pc' = [pc EXCEPT ![Maintain] = "expire_scan"]
    /\ UNCHANGED <<registry, bootstrap, bootstrapLock, now, callerVars,
                   workerVars, resolved, deferrals, swept, supervisorVars>>

\* Mutant: the sweep lists nothing.
ExpireSnapshot_Nothing(reg, now_time) == {}

\* The keys lines 270-279 push.
ExpireSnapshot(reg, now_time) ==
    {k \in DOMAIN reg : ExpireDue(reg[k], now_time)}

\* Lines 268-283.  Where the product of line 276 overflows for an entry,
\* a build with overflow checks panics there: the thread unwinds, dropping
\* its read guard, and is over; a build without goes on with the wrapped
\* product.
ExpireScan ==
    /\ pc[Maintain] = "expire_scan"
    /\ registryLock' = Unlocked(registryLock, Maintain)
    /\ \/ /\ expire_register' = ExpireSnapshot(registry, now)
          /\ pc' = [pc EXCEPT ![Maintain] =
                IF ExpireSnapshot(registry, now) = {}
                THEN "refresh_wait" ELSE "expire_wait"]
       \/ /\ \E k \in DOMAIN registry : ExpireOverflows(registry[k].ttl)
          /\ expire_register' = {}
          /\ pc' = [pc EXCEPT ![Maintain] = "panicked"]
    /\ UNCHANGED <<registry, bootstrap, bootstrapLock, now, callerVars,
                   bootstrap_register, refresh_register, flat,
                   resolved, deferrals, swept, supervisorVars>>

\* Line 284.
ExpireAcquire ==
    /\ pc[Maintain] = "expire_wait"
    /\ CanWrite(registryLock)
    /\ registryLock' = WriteLocked(registryLock, Maintain)
    /\ pc' = [pc EXCEPT ![Maintain] = "expire_remove"]
    /\ UNCHANGED <<registry, bootstrap, bootstrapLock, now, callerVars,
                   workerVars, resolved, deferrals, swept, supervisorVars>>

\* Lines 286-289.
ExpireRemove ==
    /\ pc[Maintain] = "expire_remove"
    /\ registry' = MapRemoveAll(registry, expire_register)
    /\ registryLock' = Unlocked(registryLock, Maintain)
    /\ expire_register' = {}
    /\ swept' = expire_register
    /\ pc' = [pc EXCEPT ![Maintain] = "refresh_wait"]
    /\ UNCHANGED <<bootstrap, bootstrapLock, now, callerVars,
                   bootstrap_register, refresh_register, flat,
                   resolved, deferrals, supervisorVars>>

(***************************************************************************)
(* DNSFlattenMaintain::refresh (lines 297-332), second in the loop of run. *)
(***************************************************************************)
\* Line 304.
RefreshScanAcquire ==
    /\ pc[Maintain] = "refresh_wait"
    /\ CanRead(registryLock)
    /\ registryLock' = ReadLocked(registryLock, Maintain)
    /\ pc' = [pc EXCEPT ![Maintain] = "refresh_scan"]
    /\ UNCHANGED <<registry, bootstrap, bootstrapLock, now, callerVars,
                   workerVars, resolved, deferrals, swept, supervisorVars>>

\* The items lines 307-316 push.
RefreshSnapshot(reg, now_time) ==
    {<<k, reg[k].ttl, reg[k].accessed_at>> :
        k \in {x \in DOMAIN reg : RefreshDue(reg[x], now_time)}}

\* Lines 305-324.
RefreshScan ==
    /\ pc[Maintain] = "refresh_scan"
    /\ registryLock' = Unlocked(registryLock, Maintain)
    /\ RefreshLoop(RefreshSnapshot(registry, now))
    /\ UNCHANGED <<registry, bootstrap, bootstrapLock, now, callerVars,
                   bootstrap_register, expire_register, resolved, deferrals,
                   supervisorVars>>

(***************************************************************************)
(* The system.                                                             *)
(***************************************************************************)
Next ==
    \/ ClockAdvance
    \/ \E c \in Callers, key \in Keys, ttl \in TTLs : Pass(c, key, ttl)
    \/ \E c \in Callers : PassLookup(c)
    \/ \E c \in Callers : QueueAcquire(c)
    \/ \E c \in Callers : QueueInsert(c)
    \/ \E w \in Workers : FlattenLookup(w)
    \/ \E w \in Workers : FlattenWrite(w)
    \/ TickScanAcquire
    \/ TickScan
    \/ TickRemoveAcquire
    \/ TickRemove
    \/ ExpireScanAcquire
    \/ ExpireScan
    \/ ExpireAcquire
    \/ ExpireRemove
    \/ RefreshScanAcquire
    \/ RefreshScan

Spec == Init /\ [][Next]_vars

\* The steps of one thread.
CallerNext(c) ==
    \/ \E key \in Keys, ttl \in TTLs : Pass(c, key, ttl)
    \/ PassLookup(c)
    \/ QueueAcquire(c)
    \/ QueueInsert(c)
BootstrapNext ==
    \/ TickScanAcquire \/ TickScan
    \/ FlattenLookup(Bootstrap) \/ FlattenWrite(Bootstrap)
    \/ TickRemoveAcquire \/ TickRemove
MaintainNext ==
    \/ ExpireScanAcquire \/ ExpireScan \/ ExpireAcquire \/ ExpireRemove
    \/ RefreshScanAcquire \/ RefreshScan
    \/ FlattenLookup(Maintain) \/ FlattenWrite(Maintain)
ThreadNext(t) ==
    IF t \in Callers THEN CallerNext(t)
    ELSE IF t = Bootstrap THEN BootstrapNext ELSE MaintainNext

(***************************************************************************)
(* main.rs: main (lines 132-149) and the functions spawn_dns and           *)
(* spawn_http that gen_spawn_managed! (lines 58-85) makes.  The function   *)
(* of a managed thread m spawns a worker thread for the managed function   *)
(* and joins it; if the spawn failed or the worker panicked it sleeps      *)
(* COOLDOWN_SECONDS and calls itself; if the worker returned it returns.   *)
(* The managed functions (DNSListenBuilder::new().run() and                *)
(* HTTPListenBuilder::new().run()) run until they panic or return.  Once   *)
(* main has returned the process is over, and every thread with it.        *)
(***************************************************************************)
flattenVars ==
    <<registry, bootstrap, registryLock, bootstrapLock, now, pc, callerVars,
      workerVars, resolved, deferrals, swept>>

ProcessAlive == main_pc # "exited"

\* Line 143: thread::spawn(spawn_http)
MainSpawnHttp ==
    /\ main_pc = "start"
    /\ main_pc' = "http_spawned"
    /\ managed' = [managed EXCEPT !["http"].method = "spawn"]
    /\ UNCHANGED flattenVars

\* Line 146: spawn_dns(), on the main thread
MainSpawnDns ==
    /\ main_pc = "http_spawned"
    /\ main_pc' = "in_spawn_dns"
    /\ managed' = [managed EXCEPT !["dns"].method = "spawn"]
    /\ UNCHANGED flattenVars

\* Lines 62-64, the spawn gives Ok(worker_thread): the worker runs, the
\* method blocks in join (line 68).
SpawnOk(m) ==
    /\ ProcessAlive
    /\ managed[m].method = "spawn"
    /\ managed' = [managed EXCEPT ![m] =
          [method |-> "join", worker |-> "running", sleep |-> 0]]
    /\ UNCHANGED <<main_pc, flattenVars>>

\* Lines 62-71, the spawn gives Err: has_error is true, lines 73-77.
SpawnFails(m) ==
    /\ ProcessAlive
    /\ managed[m].method = "spawn"
    /\ managed' = [managed EXCEPT ![m] =
          [method |-> "sleep", worker |-> "none", sleep |-> COOLDOWN_SECONDS]]
    /\ UNCHANGED <<main_pc, flattenVars>>

\* The managed function panics.
WorkerPanics(m) ==
    /\ ProcessAlive
    /\ managed[m].worker = "running"
    /\ managed' = [managed EXCEPT ![m].worker = "panicked"]
    /\ UNCHANGED <<main_pc, flattenVars>>

\* The managed function returns.
WorkerReturns(m) ==
    /\ ProcessAlive
    /\ managed[m].worker = "running"
    /\ managed' = [managed EXCEPT ![m].worker = "returned"]
    /\ UNCHANGED <<main_pc, flattenVars>>

\* Lines 67-77: join returns, Err if the worker panicked; with an error
\* the method logs and starts its sleep, with none it returns.
JoinWorker(m) ==
    /\ ProcessAlive
    /\ managed[m].method = "join"
    /\ managed[m].worker \in {"panicked", "returned"}
    /\ managed' = [managed EXCEPT ![m] =
          IF managed[m].worker = "panicked"
          THEN [@ EXCEPT !.method = "sleep", !.sleep = COOLDOWN_SECONDS]
          ELSE [@ EXCEPT !.method = "returned"]]
    /\ UNCHANGED <<main_pc, flattenVars>>

\* Line 77: a second of thread::sleep(Duration::from_secs(2)) passes.
SleepTick(m) ==
    /\ ProcessAlive
    /\ managed[m].method = "sleep"
    /\ managed[m].sleep > 0
    /\ managed' = [managed EXCEPT ![m].sleep = @ - 1]
    /\ UNCHANGED <<main_pc, flattenVars>>

\* Line 79: $method(), which starts at the spawn again.
Respawn(m) ==
    /\ ProcessAlive
    /\ managed[m].method = "sleep"
    /\ managed[m].sleep = 0
    /\ managed' = [managed EXCEPT ![m] =
          [method |-> "spawn", worker |-> "none", sleep |-> 0]]
    /\ UNCHANGED <<main_pc, flattenVars>>

\* Lines 146-149: spawn_dns() returned; main logs "could not start" and
\* returns.
MainReturns ==
    /\ main_pc = "in_spawn_dns"
    /\ managed["dns"].method = "returned"
    /\ main_pc' = "exited"
    /\ UNCHANGED <<managed, flattenVars>>

NextManaged ==
    \/ MainSpawnHttp
    \/ MainSpawnDns
    \/ \E m \in Managed : SpawnOk(m)
    \/ \E m \in Managed : SpawnFails(m)
    \/ \E m \in Managed : WorkerPanics(m)
    \/ \E m \in Managed : WorkerReturns(m)
    \/ \E m \in Managed : JoinWorker(m)
    \/ \E m \in Managed : SleepTick(m)
    \/ \E m \in Managed : Respawn(m)
    \/ MainReturns

\* The threads of main.rs are scheduled: main goes on, a spawn function
\* not blocked in join goes on, the sleep ends, and the operating system
\* does not refuse a thread for ever.  Nothing makes a worker panic or
\* return.
FairManaged ==
    /\ WF_vars(MainSpawnHttp)
    /\ WF_vars(MainSpawnDns)
    /\ WF_vars(MainReturns)
    /\ \A m \in Managed :
          /\ SF_vars(SpawnOk(m))
          /\ WF_vars(JoinWorker(m))
          /\ WF_vars(SleepTick(m))
          /\ WF_vars(Respawn(m))

SpecManaged == Init /\ [][NextManaged]_vars /\ FairManaged

(***************************************************************************)
(* The maintenance worker alone, over a registry that earlier calls have   *)
(* filled: every key has an entry, stored at time 0 by a bootstrap whose   *)
(* lookup gave no values, with a TTL a zone record may carry (any u32;     *)
(* those here lie around the TTLs whose product by the ratio passes 2^32). *)
(***************************************************************************)
SweepTTLs == {1, 429496729, 429496730, 429496731, 858993460, 2147483647}

InitSweep ==
    /\ registry \in [Keys -> {DNSFlattenEntryNew(<<>>, ttl, OptNone, 0) :
                                ttl \in SweepTTLs}]
    /\ bootstrap = EmptyMap
    /\ registryLock = Free
    /\ bootstrapLock = Free
    /\ now = 0
    /\ pc = [t \in Threads |-> IF t \in Callers THEN "returned" ELSE "sleep"]
    /\ call = [c \in Callers |-> NoCall]
    /\ ret = NoRet
    /\ bootstrap_register = {}
    /\ expire_register = {}
    /\ refresh_register = {}
    /\ flat = [w \in Workers |-> NoFlat]
    /\ queried = Keys
    /\ resolved = Keys
    /\ deferrals = [k \in Keys |-> 0]
    /\ swept = {}
    /\ main_pc = "start"
    /\ managed = [m \in Managed |-> NotSpawned]

NextSweep ==
    \/ ClockAdvance
    \/ MaintainNext

SpecSweep == InitSweep /\ [][NextSweep]_vars

\* The same under a fair scheduling of the maintenance thread (its loop
\* goes on as long as the thread lives) and with a clock that goes on.
SpecSweepFair ==
    InitSweep /\ [][NextSweep]_vars
        /\ WF_vars(MaintainNext) /\ WF_vars(ClockAdvance)

(***************************************************************************)
(* Properties.                                                             *)
(***************************************************************************)
\* Thread t takes a step.
Steps(t) == pc'[t] # pc[t]
\* The entry of key in the registry, as a record of its four fields.
EntryIs(reg, key, values, ttl, refreshed_at, accessed_at) ==
    /\ ContainsKey(reg, key)
    /\ reg[key] = [values |-> values, ttl |-> ttl,
                   refreshed_at |-> refreshed_at, accessed_at |-> accessed_at]
\* reg2 is reg1 but for the entry of key.
SameButFor(reg1, reg2, key) ==
    /\ DOMAIN reg2 \ {key} = DOMAIN reg1 \ {key}
    /\ \A x \in DOMAIN reg1 \ {key} : reg2[x] = reg1[x]

\* C1: a pass that finds no entry for its key in the registry goes on to
\* queue, which maps the key to the TTL of the call in the pending queue and
\* returns the Deferred failure; no step of that call changes the registry,
\* and the call returns no success.
C1_MissDefers ==
    [][\A c \in Callers :
        LET k == call[c].key IN
        /\ (pc[c] = "pass_lookup" /\ Steps(c) /\ ~ContainsKey(registry, k))
              => /\ pc'[c] = "queue_wait"
                 /\ registry' = registry
                 /\ ret' = ret
                 /\ call'[c] = call[c]
        /\ (pc[c] = "queue_wait" /\ Steps(c))
              => /\ pc'[c] = "queue_insert"
                 /\ registry' = registry
                 /\ ret' = ret
                 /\ call'[c] = call[c]
        /\ (pc[c] = "queue_insert" /\ Steps(c))
              => /\ pc'[c] = "returned"
                 /\ ret' = [kind |-> "Deferred", key |-> k]
                 /\ registry' = registry
                 /\ ContainsKey(bootstrap', k)
                 /\ bootstrap'[k] = call[c].ttl
    ]_vars

\* C1 happens: a call returned Deferred for a key that has no entry and is
\* pending.
C1_Witness ==
    /\ ret.kind = "Deferred"
    /\ ~ContainsKey(registry, ret.key)
    /\ ContainsKey(bootstrap, ret.key)

\* C2: a pass that finds an entry for its key returns success with the
\* values of the entry, stamps accessed_at with the current time, changes
\* nothing else of the registry and nothing of the pending queue; and the
\* values of an entry are those the last resolution write for the key stored
\* (only a resolution write sets or changes them).
C2_HitReturnsStored ==
    [][/\ \A c \in Callers :
            LET k == call[c].key IN
            (pc[c] = "pass_lookup" /\ Steps(c) /\ ContainsKey(registry, k))
              => /\ pc'[c] = "returned"
                 /\ ret' = [kind |-> "Ok", key |-> k,
                            values |-> registry[k].values]
                 /\ EntryIs(registry', k, registry[k].values, registry[k].ttl,
                            registry[k].refreshed_at, now)
                 /\ SameButFor(registry, registry', k)
                 /\ bootstrap' = bootstrap
       /\ \A k \in DOMAIN registry' :
            (~ContainsKey(registry, k) \/ registry'[k].values # registry[k].values)
              => \E w \in Workers :
                    /\ pc[w] = "flatten_write" /\ Steps(w) /\ flat[w].key = k
                    /\ registry'[k].values =
                          IF flat[w].results.ok THEN flat[w].results.values
                          ELSE <<>>
    ]_vars

\* C2 happens: a call returned a non-empty value sequence, the one of the
\* entry.
C2_Witness ==
    /\ ret.kind = "Ok"
    /\ ret.values # <<>>
    /\ ContainsKey(registry, ret.key)
    /\ registry[ret.key].values = ret.values
    /\ registry[ret.key].accessed_at > registry[ret.key].refreshed_at

\* C3: a resolution that failed and finds an entry for its key at its write
\* leaves the registry as it is; and no step that is a failed resolution
\* turns a non-empty value sequence into an empty one.
C3_FailureKeepsEntry ==
    [][/\ \A w \in Workers :
        (/\ pc[w] = "flatten_write" /\ Steps(w)
         /\ ~flat[w].results.ok
         /\ ContainsKey(registry, flat[w].key))
          => registry' = registry
       /\ \A k \in DOMAIN registry \cap DOMAIN registry' :
            (registry[k].values # <<>> /\ registry'[k].values = <<>>)
              => \E w \in Workers :
                    /\ pc[w] = "flatten_write" /\ Steps(w) /\ flat[w].key = k
                    /\ flat[w].results.ok
    ]_vars

\* C3 happens: the bootstrap worker's resolution failed and the entry of the
\* key still holds its values.
C3_Witness ==
    /\ pc[Bootstrap] = "tick_remove_wait"
    /\ ~flat[Bootstrap].results.ok
    /\ ContainsKey(registry, flat[Bootstrap].key)
    /\ registry[flat[Bootstrap].key].values # <<>>

\* C4: a resolution that failed and finds no entry for its key at its write
\* installs one with no values, the ttl asked, refreshed_at the current time
\* and accessed_at the override or the current time; and a pass that finds
\* an entry with no values returns success with no values and leaves the
\* pending queue alone.
C4_FailureInstallsEmpty ==
    [][/\ \A w \in Workers :
            LET k == flat[w].key IN
            (/\ pc[w] = "flatten_write" /\ Steps(w)
             /\ ~flat[w].results.ok
             /\ ~ContainsKey(registry, k))
              => /\ EntryIs(registry', k, <<>>, flat[w].ttl, now,
                            IF flat[w].accessed_at = <<>> THEN now
                            ELSE flat[w].accessed_at[1])
                 /\ SameButFor(registry, registry', k)
       /\ \A c \in Callers :
            LET k == call[c].key IN
            (/\ pc[c] = "pass_lookup" /\ Steps(c)
             /\ ContainsKey(registry, k)
             /\ registry[k].values = <<>>)
              => /\ pc'[c] = "returned"
                 /\ ret' = [kind |-> "Ok", key |-> k, values |-> <<>>]
                 /\ bootstrap' = bootstrap
    ]_vars

\* C4 happens: a pass on a key of type A, whose lookups never succeed with
\* no records, returned success with no values, and the key is not pending.
C4_Witness ==
    /\ ret.kind = "Ok"
    /\ ret.key[2] = "A"
    /\ ret.values = <<>>
    /\ ~ContainsKey(bootstrap, ret.key)

\* C5 as stated: between two resolutions of a key, at most one pass call
\* for it returns Deferred.
C5_DeferredOnce == \A k \in Keys : deferrals[k] <= 1

\* C5 as amended: every pass that misses returns Deferred, however many did
\* before it; its enqueue sets the pending TTL of its key and touches no
\* other pending entry, and the snapshot of a tick holds one item for a key,
\* so duplicate queries queue no duplicate work.
C5_NoDuplicateQueueing ==
    /\ [][\A c \in Callers :
            LET k == call[c].key IN
            (pc[c] = "queue_insert" /\ Steps(c))
              => /\ ret' = [kind |-> "Deferred", key |-> k]
                 /\ DOMAIN bootstrap' = DOMAIN bootstrap \cup {k}
                 /\ bootstrap'[k] = call[c].ttl
                 /\ \A x \in DOMAIN bootstrap \ {k} : bootstrap'[x] = bootstrap[x]
                 /\ deferrals'[k] = deferrals[k] + 1
       ]_vars
    /\ [](\A i, j \in bootstrap_register : i[1] = j[1] => i = j)

\* C5 happens: two calls for a key returned Deferred with no resolution
\* between them, and the key is pending.
C5_Witness ==
    \E k \in Keys :
        /\ deferrals[k] >= 2
        /\ ret = [kind |-> "Deferred", key |-> k]
        /\ ContainsKey(bootstrap, k)

\* C6 as stated: a key leaves the pending queue only after a resolution of
\* it wrote (or kept) the registry since its last enqueue.
C6_EnqueueIsResolved ==
    [][\A k \in Keys :
        (ContainsKey(bootstrap, k) /\ ~ContainsKey(bootstrap', k))
          => deferrals[k] = 0
    ]_vars

\* C7 as stated: an entry that leaves the registry was last accessed at
\* least ttl x 10 seconds before.
C7_ExpiredOnlyIfStale ==
    [][\A k \in DOMAIN registry :
        ~ContainsKey(registry', k)
          => now - registry[k].accessed_at
                >= registry[k].ttl * MAINTAIN_EXPIRE_TTL_RATIO
    ]_vars

\* C8: the refresh scan queues exactly the entries whose time since
\* refreshed_at is at least their ttl, each with its ttl and accessed_at;
\* each queued item gets one flatten call with these, before the worker
\* sleeps; and the write of such a call leaves the entry's accessed_at no
\* later than it was.
C8_RefreshKeepsAccess ==
    [][/\ (pc[Maintain] = "refresh_scan" /\ Steps(Maintain))
            => LET due == {k \in DOMAIN registry :
                             now - registry[k].refreshed_at >= registry[k].ttl}
                   todo == {<<i[1], i[2], <<i[3]>> >> : i \in refresh_register'}
                           \cup (IF pc'[Maintain] = "flatten_lookup"
                                 THEN {<<flat'[Maintain].key, flat'[Maintain].ttl,
                                         flat'[Maintain].accessed_at>>}
                                 ELSE {})
               IN /\ todo = {<<k, registry[k].ttl, <<registry[k].accessed_at>> >> :
                                k \in due}
                  /\ Cardinality(todo) = Cardinality(due)
                  /\ pc'[Maintain] = "sleep" <=> due = {}
       /\ (pc[Maintain] = "flatten_write" /\ Steps(Maintain))
            => LET k == flat[Maintain].key IN
               /\ ContainsKey(registry, k)
               /\ ContainsKey(registry', k)
               /\ registry'[k].accessed_at <= registry[k].accessed_at
               /\ flat[Maintain].results.ok => registry'[k].ttl = flat[Maintain].ttl
               /\ IF refresh_register = {}
                  THEN pc'[Maintain] = "sleep"
                  ELSE /\ pc'[Maintain] = "flatten_lookup"
                       /\ \E i \in refresh_register :
                            /\ refresh_register' = refresh_register \ {i}
                            /\ flat'[Maintain].key = i[1]
                            /\ flat'[Maintain].ttl = i[2]
                            /\ flat'[Maintain].accessed_at = <<i[3]>>
    ]_vars

\* C8 happens: an entry was refreshed later than it was last accessed, after
\* a pass hit had stamped it.
C8_Witness ==
    \E k \in DOMAIN registry :
        /\ registry[k].refreshed_at > registry[k].accessed_at
        /\ registry[k].accessed_at > 0
        /\ registry[k].values # <<>>

\* C9: a key has an entry only if pass was called for it and a resolution of
\* it completed; an entry appears, or changes its values, ttl or
\* refreshed_at, only in the write of a resolution of its key, and
\* disappears only in the removal of an expire sweep that listed it.
C9_EntriesComeFromResolution ==
    /\ [](DOMAIN registry \subseteq queried \cap resolved)
    /\ [][\A k \in Keys :
            /\ (/\ ContainsKey(registry', k)
                /\ \/ ~ContainsKey(registry, k)
                   \/ registry'[k].values # registry[k].values
                   \/ registry'[k].ttl # registry[k].ttl
                   \/ registry'[k].refreshed_at # registry[k].refreshed_at)
                 => \E w \in Workers :
                       pc[w] = "flatten_write" /\ Steps(w) /\ flat[w].key = k
            /\ (ContainsKey(registry, k) /\ ~ContainsKey(registry', k))
                 => /\ pc[Maintain] = "expire_remove" /\ Steps(Maintain)
                    /\ k \in expire_register
       ]_vars

\* C9 happens: a key has an entry while another key, never queried, has
\* none.
C9_Witness ==
    /\ DOMAIN registry # {}
    /\ Keys \ queried # {}
    /\ pc[Bootstrap] = "sleep"

\* C10: no thread holds the registry lock and the pending-queue lock at
\* once; a lock has one writer or readers only; a thread that holds a lock
\* can take its next step, and that step releases the lock, so a thread
\* that waits for a lock waits for a thread that can go on: no set of
\* threads waits for each other's locks.
C10_NoNestedLocksNoDeadlock ==
    /\ \A t \in Threads : ~(Holds(registryLock, t) /\ Holds(bootstrapLock, t))
    /\ \A lock \in {registryLock, bootstrapLock} :
          /\ Cardinality(lock.writers) <= 1
          /\ lock.writers # {} => lock.readers = {}
    /\ \A t \in Threads :
          (Holds(registryLock, t) \/ Holds(bootstrapLock, t))
             => ENABLED (ThreadNext(t) /\ ~Holds(registryLock', t)
                                       /\ ~Holds(bootstrapLock', t))

\* C10 happens: the two locks are held by the two workers while a caller
\* waits for the pending-queue lock.
C10_Witness ==
    /\ Holds(registryLock, Maintain)
    /\ Holds(bootstrapLock, Bootstrap)
    /\ \E c \in Callers : pc[c] = "queue_wait"

\* C12: for a key of type PTR or CNAME the match of flatten calls no
\* resolver and has one outcome, success with no values, whatever the name;
\* the write of a resolution of such a key leaves an entry with no values,
\* the ttl asked and refreshed_at the current time, whatever entry the
\* registry held for the key.
C12_AliasResolvesEmpty ==
    /\ [](\A k \in Keys \cup {<<"4.3.2.1.in-addr.arpa", "PTR">>} :
            k[2] \in {"PTR", "CNAME"}
              => /\ ~CallsUpstream(k)
                 /\ FlattenResults(k) = {[ok |-> TRUE, values |-> <<>>]})
    /\ [][\A w \in Workers :
            LET k == flat[w].key IN
            (/\ pc[w] = "flatten_write" /\ Steps(w)
             /\ k[2] \in {"PTR", "CNAME"})
              => /\ flat[w].results = [ok |-> TRUE, values |-> <<>>]
                 /\ EntryIs(registry', k, <<>>, flat[w].ttl, now,
                            IF flat[w].accessed_at = <<>> THEN now
                            ELSE flat[w].accessed_at[1])
                 /\ SameButFor(registry, registry', k)
       ]_vars

\* C12 happens: the entry of a CNAME key was written again by a refresh,
\* over the entry the bootstrap had installed, and holds no values.
C12_Witness ==
    \E k \in DOMAIN registry :
        /\ k[2] = "CNAME"
        /\ registry[k].values = <<>>
        /\ registry[k].refreshed_at > registry[k].accessed_at

\* A pass hit on key k, a write of the bootstrap worker that stores an
\* entry for k, the write of a refresh of k.
PassHits(k) ==
    \E c \in Callers :
        pc[c] = "pass_lookup" /\ Steps(c) /\ call[c].key = k
        /\ ContainsKey(registry, k)
BootstrapStores(k) ==
    /\ pc[Bootstrap] = "flatten_write" /\ Steps(Bootstrap)
    /\ flat[Bootstrap].key = k
    /\ flat[Bootstrap].results.ok \/ ~ContainsKey(registry, k)
RefreshWrites(k) ==
    /\ pc[Maintain] = "flatten_write" /\ Steps(Maintain)
    /\ flat[Maintain].key = k

\* C13 as stated: the accessed_at of an entry that stays is made earlier by
\* the write of a refresh only, and every pass hit and every bootstrap write
\* over an entry makes it strictly later.
C13_AccessStrictlyForward ==
    [][\A k \in DOMAIN registry \cap DOMAIN registry' :
        /\ registry'[k].accessed_at < registry[k].accessed_at
              => RefreshWrites(k)
        /\ (PassHits(k) \/ BootstrapStores(k))
              => registry'[k].accessed_at > registry[k].accessed_at
    ]_vars

\* C13 as amended: the accessed_at of an entry that stays is made earlier
\* by the write of a refresh only; a pass hit and a bootstrap write over an
\* entry set it to the current time, which is never earlier than the
\* accessed_at of any entry (and is the same when the clock has not moved
\* since).
C13_AccessNeverBackward ==
    /\ [](\A k \in DOMAIN registry : registry[k].accessed_at <= now)
    /\ [][\A k \in DOMAIN registry \cap DOMAIN registry' :
            /\ registry'[k].accessed_at < registry[k].accessed_at
                  => RefreshWrites(k)
            /\ (PassHits(k) \/ BootstrapStores(k))
                  => /\ registry'[k].accessed_at = now
                     /\ registry'[k].accessed_at >= registry[k].accessed_at
       ]_vars

\* C13 happens: a pass hit has stamped an entry after the refresh scan read
\* its accessed_at, and the write of the refresh is about to restore the
\* earlier one.
C13_Witness ==
    \E k \in DOMAIN registry :
        /\ pc[Maintain] = "flatten_write"
        /\ flat[Maintain].key = k
        /\ flat[Maintain].accessed_at # <<>>
        /\ \A t \in {flat[Maintain].accessed_at[i] : i \in DOMAIN flat[Maintain].accessed_at} :
              t < registry[k].accessed_at
        /\ registry[k].accessed_at = now

\* The maintenance worker is in refresh, after expire returned.
InRefresh ==
    pc[Maintain] \in {"refresh_wait", "refresh_scan",
                      "flatten_lookup", "flatten_write"}
\* The keys this tick's refresh is to resolve or is resolving.
RefreshKeys ==
    {i[1] : i \in refresh_register}
        \cup (IF pc[Maintain] \in {"flatten_lookup", "flatten_write"}
              THEN {flat[Maintain].key} ELSE {})

\* C14: in a maintenance tick refresh starts only once expire is over (its
\* scan listed nothing, or its removal is done); the scan of expire lists
\* every entry that is then past its grace period, due for refresh or not,
\* and goes on to the removal, which removes every listed key; and the
\* refresh of the tick resolves no key the sweep of the tick removed: such
\* a key has no entry for the refresh scan to find, unless the bootstrap
\* worker has stored a new entry for it since the removal.
C14_ExpireBeforeRefresh ==
    /\ [](InRefresh => expire_register = {})
    /\ [](\A k \in swept : InRefresh /\ ~ContainsKey(registry, k))
    /\ [](RefreshKeys \cap swept = {})
    /\ [][/\ (Steps(Maintain) /\ pc'[Maintain] = "refresh_wait")
              => \/ pc[Maintain] = "expire_remove"
                 \/ /\ pc[Maintain] = "expire_scan"
                    /\ \A k \in DOMAIN registry :
                          now - registry[k].accessed_at
                             < registry[k].ttl * MAINTAIN_EXPIRE_TTL_RATIO
          /\ (Steps(Maintain) /\ pc'[Maintain] = "refresh_scan")
              => pc[Maintain] = "refresh_wait"
          /\ (Steps(Maintain) /\ pc[Maintain] = "expire_scan")
              => \A k \in DOMAIN registry :
                    ((/\ now - registry[k].refreshed_at >= registry[k].ttl
                      /\ now - registry[k].accessed_at
                            >= registry[k].ttl * MAINTAIN_EXPIRE_TTL_RATIO)
                       => /\ k \in expire_register'
                          /\ pc'[Maintain] = "expire_wait")
          /\ (Steps(Maintain) /\ pc[Maintain] = "expire_wait")
              => pc'[Maintain] = "expire_remove" /\ UNCHANGED expire_register
          /\ (Steps(Maintain) /\ pc[Maintain] = "expire_remove")
              => /\ DOMAIN registry' = DOMAIN registry \ expire_register
                 /\ swept' = expire_register
                 /\ pc'[Maintain] = "refresh_wait"
       ]_vars

\* C14 happens: the sweep of the tick removed a key, and the refresh of the
\* same tick is resolving another one.
C14_Witness ==
    /\ swept # {}
    /\ pc[Maintain] = "flatten_lookup"
    /\ flat[Maintain].key \notin swept

\* C15: the write of a resolution that succeeded leaves, whatever entry the
\* key had, the entry made of the values of the result, the ttl the call
\* was given, refreshed_at the current time, and accessed_at the current
\* time for the bootstrap worker (which gives none) and the one given for
\* the maintenance worker (which gives the one its scan read); no other
\* entry changes.  The values of a result are the records of the answer,
\* each formatted, in the order of the answer.
C15_SuccessReplaces ==
    /\ [](FlattenResults(<<"example.com", "A">>)
            = {[ok |-> TRUE, values |-> <<"1.2.3.4", "1.2.3.5">>], [ok |-> FALSE]})
    /\ [](FlattenResults(<<"example.com", "MX">>)
            = {[ok |-> TRUE, values |-> <<"10 mail.example.com">>], [ok |-> FALSE]})
    /\ [](FlattenResults(<<"example.com", "TXT">>)
            = {[ok |-> TRUE, values |-> <<"v=spf1 -all", "a">>], [ok |-> FALSE]})
    /\ [][\A w \in Workers :
            LET k == flat[w].key IN
            (pc[w] = "flatten_write" /\ Steps(w) /\ flat[w].results.ok)
              => /\ flat[w].results \in FlattenResults(k)
                 /\ w = Bootstrap => flat[w].accessed_at = <<>>
                 /\ w = Maintain => Len(flat[w].accessed_at) = 1
                 /\ EntryIs(registry', k, flat[w].results.values, flat[w].ttl,
                            now,
                            IF w = Bootstrap THEN now
                            ELSE Head(flat[w].accessed_at))
                 /\ SameButFor(registry, registry', k)
       ]_vars

\* C15 happens: a refresh that succeeded has just replaced the entry of a
\* key of type A, which had been accessed before the refresh.
C15_Witness ==
    \E k \in DOMAIN registry :
        /\ registry[k].values = <<"1.2.3.4", "1.2.3.5">>
        /\ registry[k].refreshed_at = now
        /\ registry[k].accessed_at < now
        /\ pc[Maintain] = "sleep"

\* C16: a thread whose resolver lookup is in progress is one of the two
\* workers and holds neither lock; a thread in pass is never in a lookup,
\* and no step of it produces a lookup result; a lookup result is produced
\* by a worker only, in flatten called from the drain of the pending queue
\* or from the loop of refresh, in a step before which the worker holds no
\* lock and by which it takes the registry write lock.
C16_NoLookupUnderLock ==
    /\ [](\A t \in Threads :
            pc[t] = "flatten_lookup"
              => /\ t \in Workers
                 /\ ~Holds(registryLock, t)
                 /\ ~Holds(bootstrapLock, t))
    /\ [](\A c \in Callers :
            pc[c] \in {"idle", "pass_lookup", "queue_wait", "queue_insert",
                       "returned"})
    /\ [][/\ \A w \in Workers :
               (flat'[w].results # flat[w].results
                  /\ flat'[w].results # [unset |-> TRUE])
                 => /\ pc[w] = "flatten_lookup"
                    /\ ~Holds(registryLock, w)
                    /\ ~Holds(bootstrapLock, w)
                    /\ flat'[w].results \in FlattenResults(flat[w].key)
                    /\ pc'[w] = "flatten_write"
                    /\ w \in registryLock'.writers
          /\ (Steps(Bootstrap) /\ pc'[Bootstrap] = "flatten_lookup")
                 => pc[Bootstrap] \in {"tick_scan", "tick_remove"}
          /\ (Steps(Maintain) /\ pc'[Maintain] = "flatten_lookup")
                 => pc[Maintain] \in {"refresh_scan", "flatten_write"}
          /\ \A c \in Callers : Steps(c) => flat' = flat
       ]_vars

\* C16 happens: the lookup of a refresh is in progress, for a key that
\* needs the resolver, while a pass call holds the registry lock and the
\* bootstrap worker the lock of the pending queue.
C16_Witness ==
    /\ pc[Maintain] = "flatten_lookup"
    /\ CallsUpstream(flat[Maintain].key)
    /\ \E c \in Callers : Holds(registryLock, c)
    /\ Holds(bootstrapLock, Bootstrap)

\* C17 as stated: the pending queue maps a key to one TTL, that of the last
\* enqueue of the key, and the entry the bootstrap worker stores for a key
\* carries the TTL the pending queue then holds for it, that of the last
\* pass miss enqueued before the write.
C17_LastWriterWins ==
    [][\A k \in Keys :
        BootstrapStores(k)
          => /\ ContainsKey(bootstrap, k)
             /\ ContainsKey(registry', k)
             /\ registry'[k].ttl = bootstrap[k]
    ]_vars

\* C19 as stated: when the bootstrap worker starts the resolution of a key
\* of its snapshot the key has no entry, and the write of the bootstrap
\* worker never finds one.
C19_BootstrapOnlyUncached ==
    [][/\ (Steps(Bootstrap) /\ pc'[Bootstrap] = "flatten_lookup")
             => ~ContainsKey(registry, flat'[Bootstrap].key)
       /\ (Steps(Bootstrap) /\ pc[Bootstrap] = "flatten_write")
             => ~ContainsKey(registry, flat[Bootstrap].key)
    ]_vars

\* C20 as stated: for every ttl the product of line 276 does not overflow
\* and the threshold of the sweep is ttl x 10; the scan of expire ends
\* normally and lists no entry accessed less than ttl x 10 seconds before.
C20_ThresholdIsProduct ==
    /\ [](\A k \in DOMAIN registry :
            /\ ~ExpireOverflows(registry[k].ttl)
            /\ ExpireThreshold(registry[k].ttl)
                  = Product(Limbs(registry[k].ttl), MAINTAIN_EXPIRE_TTL_RATIO))
    /\ [][(pc[Maintain] = "expire_scan" /\ Steps(Maintain))
            => /\ pc'[Maintain] \in {"expire_wait", "refresh_wait"}
               /\ \A k \in expire_register' :
                     AtLeast(Limbs(now - registry[k].accessed_at),
                             Product(Limbs(registry[k].ttl),
                                     MAINTAIN_EXPIRE_TTL_RATIO))
       ]_vars

\* C11 as stated: a managed worker that has terminated, by a panic or by a
\* return of its function, eventually runs again.
C11_TerminatedWorkerRestarts ==
    \A m \in Managed :
        (managed[m].worker \in {"panicked", "returned"})
            ~> (managed[m].worker = "running")

\* The entry of k was last accessed ttl x 10 seconds ago or more.
PastGrace(k) ==
    /\ ContainsKey(registry, k)
    /\ AtLeast(Limbs(now - registry[k].accessed_at),
               Product(Limbs(registry[k].ttl), MAINTAIN_EXPIRE_TTL_RATIO))

\* C18 as stated: with no pass call any more, the maintenance worker
\* scheduled fairly and the clock going on, an entry past its grace period
\* is eventually removed, whatever refreshes are made of it.
C18_UnqueriedEntryExpires ==
    \A k \in Keys : PastGrace(k) ~> ~ContainsKey(registry, k)

=============================================================================
